---- MODULE Spec2Model ----
(***************************************************************************)
(* A model of SparseMatrix (sparse_matrix.py): explicit construction,      *)
(* construction from a text source, getElement / setElement, the three     *)
(* binary operations add / subtract / multiply, and to_string.             *)
(*                                                                         *)
(* Python objects are references.  A matrix object is a record             *)
(* [rows, cols, matrix_data] whose matrix_data is a reference into the     *)
(* store of dict objects (the variable dicts); a dict is a function from   *)
(* <<row, col>> keys to integers.  Python integers are unbounded, so       *)
(* values are plain integers.  A call is modelled by an operator from the  *)
(* store before the call to an outcome record: err names the kind of       *)
(* error raised (None: the call returned normally), st is the store after  *)
(* the call, ret is what the call returned.                                *)
(***************************************************************************)
EXTENDS Integers, Sequences, FiniteSets, TLC

\* ------------------------------------------------------------ bounds
\* Matrices constructed with explicit dimensions have at most MaxCells cells.
MaxCells == 3
\* Operands drawn by InitArith hold at most MaxEntries stored entries.
MaxEntries == 2
\* The call-sequence specification makes at most MaxCalls calls after
\* construction.
MaxCalls == 2
\* A drawn file has at most MaxLines lines after its header.
MaxLines == 2

\* Values handed to setElement, and values stored in drawn operands.
Values == {-1, 0, 1}
NonZeroValues == Values \ {0}

\* ------------------------------------------------------- error kinds
\* The code raises ValueError / IndexError / FileNotFoundError; the kind is
\* the message it raises with.
None == "None"
InvalidDimension == "InvalidDimension"
IndexOutOfBounds == "IndexOutOfBounds"
DimensionMismatch == "DimensionMismatch"
SourceNotFound == "SourceNotFound"
MalformedHeader == "MalformedHeader"
MalformedEntry == "MalformedEntry"
EntryOutOfBounds == "EntryOutOfBounds"

\* ------------------------------------------------- dicts and the store
EmptyDict == [k \in {} |-> 0]
DictGet(d, k, default) == IF k \in DOMAIN d THEN d[k] ELSE default
DictSet(d, k, v) == [x \in (DOMAIN d) \cup {k} |-> IF x = k THEN v ELSE d[x]]
DictDel(d, k) == [x \in (DOMAIN d) \ {k} |-> d[x]]

\* Every order in which the keys of a dict may be iterated.  Python iterates
\* in insertion order, which depends on the history of the dict: any
\* permutation of the keys can occur.
Orders(S) ==
    {q \in [1..Cardinality(S) -> S] : \A i, j \in 1..Cardinality(S) : q[i] = q[j] => i = j}

\* The store maps the references of the live dict objects to their contents.
EmptyStore == [x \in {} |-> EmptyDict]
StoreSet(st, ref, d) == [x \in (DOMAIN st) \cup {ref} |-> IF x = ref THEN d ELSE st[x]]
Release(st, ref) == [x \in (DOMAIN st) \ {ref} |-> st[x]]
\* The reference a newly allocated dict gets: one that is not in use.
FreshRef(st) ==
    CHOOSE x \in 1..(Cardinality(DOMAIN st) + 1) :
        x \notin DOMAIN st /\ \A y \in 1..(x - 1) : y \in DOMAIN st

\* No object: an unassigned reference, or what a call that raised returns.
\* (A constructed matrix has rows > 0 and a reference > 0.)
NoMatrix == [rows |-> 0, cols |-> 0, matrix_data |-> 0]
\* The ret field of a getElement that raised (it returns nothing; err tells).
NoValue == 0

\* ------------------------------------------------------ construction
\* AllocMatrix with the dict a class attribute, shared by every instance,
\* instead of one made per instance.
AllocMatrix_SharedDict(st, numRows, numCols) ==
    [st |-> IF 1 \in DOMAIN st THEN st ELSE StoreSet(st, 1, EmptyDict),
     m |-> [rows |-> numRows, cols |-> numCols, matrix_data |-> 1]]

\* self.rows = numRows; self.cols = numCols; self.matrix_data = {}
AllocMatrix(st, numRows, numCols) ==
    LET ref == FreshRef(st)
    IN  [st |-> StoreSet(st, ref, EmptyDict),
         m |-> [rows |-> numRows, cols |-> numCols, matrix_data |-> ref]]

\* SparseMatrix(numRows=..., numCols=...), no file path.
NewMatrix(st, numRows, numCols) ==
    LET a == AllocMatrix(st, numRows, numCols)
    IN  IF numRows <= 0 \/ numCols <= 0
        THEN [err |-> InvalidDimension, st |-> st, ret |-> NoMatrix]
        ELSE [err |-> None, st |-> a.st, ret |-> a.m]

\* ---------------------------------------------------- element access
\* InBounds with <= for < on the upper side.
InBounds_Inclusive(m, r, c) == 0 <= r /\ r <= m.rows /\ 0 <= c /\ c <= m.cols

InBounds(m, r, c) == 0 <= r /\ r < m.rows /\ 0 <= c /\ c < m.cols

\* getElement looking the key up with row and column exchanged.
getElement_Transposed(st, m, currRow, currCol) ==
    IF ~InBounds(m, currRow, currCol)
    THEN [err |-> IndexOutOfBounds, ret |-> NoValue]
    ELSE [err |-> None, ret |-> DictGet(st[m.matrix_data], <<currCol, currRow>>, 0)]

getElement(st, m, currRow, currCol) ==
    IF ~InBounds(m, currRow, currCol)
    THEN [err |-> IndexOutOfBounds, ret |-> NoValue]
    ELSE [err |-> None, ret |-> DictGet(st[m.matrix_data], <<currRow, currCol>>, 0)]

\* StoreValue without the branch that deletes on zero.
StoreValue_KeepZero(d, k, value) == DictSet(d, k, value)

StoreValue(d, k, value) ==
    IF value # 0 THEN DictSet(d, k, value)
    ELSE IF k \in DOMAIN d THEN DictDel(d, k)
    ELSE d

setElement(st, m, currRow, currCol, value) ==
    IF ~InBounds(m, currRow, currCol)
    THEN [err |-> IndexOutOfBounds, st |-> st]
    ELSE [err |-> None,
          st |-> StoreSet(st, m.matrix_data,
                          StoreValue(st[m.matrix_data], <<currRow, currCol>>, value))]

\* ------------------------------------------------------- arithmetic
AddDimsDiffer(self, other) == self.rows # other.rows \/ self.cols # other.cols
\* MulDimsDiffer comparing the rows of both operands.
MulDimsDiffer_Rows(self, other) == self.rows # other.rows
MulDimsDiffer(self, other) == self.cols # other.rows

\* The loops below run on a loop state [err, st]: the store so far, and the
\* error that ended the loop early, if any.

\* for (r, c), val in self.matrix_data.items(): result.setElement(r, c, val)
\* d is the dict being iterated, keys its keys in iteration order.
RECURSIVE CopyLoop(_, _, _, _)
CopyLoop(ls, result, d, keys) ==
    IF keys = <<>> \/ ls.err # None THEN ls
    ELSE LET k == Head(keys)
         IN  CopyLoop(setElement(ls.st, result, k[1], k[2], d[k]), result, d, Tail(keys))

\* AddCombine subtracting.
AddCombine_Minus(current_val, val) == current_val - val
AddCombine(current_val, val) == current_val + val
SubCombine(current_val, val) == current_val - val

\* for (r, c), val in other.matrix_data.items():
\*     current_val = result.getElement(r, c)
\*     result.setElement(r, c, current_val + val)
RECURSIVE AddLoop(_, _, _, _)
AddLoop(ls, result, d, keys) ==
    IF keys = <<>> \/ ls.err # None THEN ls
    ELSE LET k == Head(keys)
             g == getElement(ls.st, result, k[1], k[2])
         IN  IF g.err # None THEN [err |-> g.err, st |-> ls.st]
             ELSE AddLoop(setElement(ls.st, result, k[1], k[2], AddCombine(g.ret, d[k])),
                          result, d, Tail(keys))

RECURSIVE SubLoop(_, _, _, _)
SubLoop(ls, result, d, keys) ==
    IF keys = <<>> \/ ls.err # None THEN ls
    ELSE LET k == Head(keys)
             g == getElement(ls.st, result, k[1], k[2])
         IN  IF g.err # None THEN [err |-> g.err, st |-> ls.st]
             ELSE SubLoop(setElement(ls.st, result, k[1], k[2], SubCombine(g.ret, d[k])),
                          result, d, Tail(keys))

\* return result_matrix; when an exception leaves the call instead, nothing
\* is returned and the result object is dropped.
Returned(ls, result, operands) ==
    IF ls.err = None THEN [err |-> None, st |-> ls.st, ret |-> result]
    ELSE [err |-> ls.err,
          st |-> IF \E o \in operands : o.matrix_data = result.matrix_data
                 THEN ls.st ELSE Release(ls.st, result.matrix_data),
          ret |-> NoMatrix]

add(st, self, other_matrix, selfOrder, otherOrder) ==
    IF AddDimsDiffer(self, other_matrix)
    THEN [err |-> DimensionMismatch, st |-> st, ret |-> NoMatrix]
    ELSE LET result_matrix == NewMatrix(st, self.rows, self.cols)
             copied == CopyLoop([err |-> result_matrix.err, st |-> result_matrix.st],
                                result_matrix.ret, st[self.matrix_data], selfOrder)
         IN  Returned(AddLoop(copied, result_matrix.ret,
                              st[other_matrix.matrix_data], otherOrder),
                      result_matrix.ret, {self, other_matrix})

subtract(st, self, other_matrix, selfOrder, otherOrder) ==
    IF AddDimsDiffer(self, other_matrix)
    THEN [err |-> DimensionMismatch, st |-> st, ret |-> NoMatrix]
    ELSE LET result_matrix == NewMatrix(st, self.rows, self.cols)
             copied == CopyLoop([err |-> result_matrix.err, st |-> result_matrix.st],
                                result_matrix.ret, st[self.matrix_data], selfOrder)
         IN  Returned(SubLoop(copied, result_matrix.ret,
                              st[other_matrix.matrix_data], otherOrder),
                      result_matrix.ret, {self, other_matrix})

\* MulTerm adding the two values.
MulTerm_Sum(val1, val2) == val1 + val2
MulTerm(val1, val2) == val1 * val2

\* The inner loop of multiply for the entry (k1, val1) of self:
\* for (r2, c2), val2 in other.matrix_data.items():
\*     if c1 == r2: result.setElement(r1, c2, result.getElement(r1, c2) + val1 * val2)
RECURSIVE MulInner(_, _, _, _, _, _)
MulInner(ls, result, k1, val1, d2, keys2) ==
    IF keys2 = <<>> \/ ls.err # None THEN ls
    ELSE LET k2 == Head(keys2)
         IN  IF k1[2] = k2[1]
             THEN LET g == getElement(ls.st, result, k1[1], k2[2])
                  IN  IF g.err # None THEN [err |-> g.err, st |-> ls.st]
                      ELSE MulInner(setElement(ls.st, result, k1[1], k2[2],
                                               g.ret + MulTerm(val1, d2[k2])),
                                    result, k1, val1, d2, Tail(keys2))
             ELSE MulInner(ls, result, k1, val1, d2, Tail(keys2))

\* for (r1, c1), val1 in self.matrix_data.items(): <inner loop>
RECURSIVE MulOuter(_, _, _, _, _, _)
MulOuter(ls, result, d1, keys1, d2, keys2) ==
    IF keys1 = <<>> \/ ls.err # None THEN ls
    ELSE LET k1 == Head(keys1)
         IN  MulOuter(MulInner(ls, result, k1, d1[k1], d2, keys2),
                      result, d1, Tail(keys1), d2, keys2)

multiply(st, self, other_matrix, selfOrder, otherOrder) ==
    IF MulDimsDiffer(self, other_matrix)
    THEN [err |-> DimensionMismatch, st |-> st, ret |-> NoMatrix]
    ELSE LET result_matrix == NewMatrix(st, self.rows, other_matrix.cols)
         IN  Returned(MulOuter([err |-> result_matrix.err, st |-> result_matrix.st],
                               result_matrix.ret, st[self.matrix_data], selfOrder,
                               st[other_matrix.matrix_data], otherOrder),
                      result_matrix.ret, {self, other_matrix})

\* ------------------------------------------------------------- text
\* A str is a sequence of one-character strings.
Digits == <<"0", "1", "2", "3", "4", "5", "6", "7", "8", "9">>
IsDigit(ch) == \E i \in 1..10 : Digits[i] = ch
DigitVal(ch) == (CHOOSE i \in 1..10 : Digits[i] = ch) - 1
\* str.strip() with no argument strips whitespace.
IsSpace(ch) == ch \in {" ", "\n", "\t"}

\* str(n) of an int, as the f-strings of to_string format it.
RECURSIVE NatStr(_)
NatStr(n) == IF n < 10 THEN <<Digits[n + 1]>>
             ELSE NatStr(n \div 10) \o <<Digits[(n % 10) + 1]>>
\* IntStr losing the sign.
IntStr_NoSign(n) == IF n < 0 THEN NatStr(0 - n) ELSE NatStr(n)
IntStr(n) == IF n < 0 THEN <<"-">> \o NatStr(0 - n) ELSE NatStr(n)

RECURSIVE LStrip(_)
LStrip(s) == IF s # <<>> /\ IsSpace(Head(s)) THEN LStrip(Tail(s)) ELSE s
RECURSIVE RStrip(_)
RStrip(s) == IF s # <<>> /\ IsSpace(s[Len(s)]) THEN RStrip(SubSeq(s, 1, Len(s) - 1)) ELSE s
Strip(s) == RStrip(LStrip(s))

StartsWith(s, prefix) == Len(s) >= Len(prefix) /\ SubSeq(s, 1, Len(prefix)) = prefix
EndsWith(s, suffix) ==
    Len(s) >= Len(suffix) /\ SubSeq(s, Len(s) - Len(suffix) + 1, Len(s)) = suffix
\* s[n:]
DropPrefix(s, n) == SubSeq(s, n + 1, Len(s))
\* line[1:-1]
Inner(s) == SubSeq(s, 2, Len(s) - 1)

\* f.readlines(): the lines of the text, each with its "\n" when it has one.
RECURSIVE ReadLinesFrom(_, _)
ReadLinesFrom(text, cur) ==
    IF text = <<>> THEN (IF cur = <<>> THEN <<>> ELSE <<cur>>)
    ELSE IF Head(text) = "\n" THEN <<cur \o <<"\n">> >> \o ReadLinesFrom(Tail(text), <<>>)
    ELSE ReadLinesFrom(Tail(text), cur \o <<Head(text)>>)
ReadLines(text) == ReadLinesFrom(text, <<>>)

\* content.split(','): the fields between the commas, at least one.
RECURSIVE SplitFrom(_, _)
SplitFrom(s, cur) ==
    IF s = <<>> THEN <<cur>>
    ELSE IF Head(s) = "," THEN <<cur>> \o SplitFrom(Tail(s), <<>>)
    ELSE SplitFrom(Tail(s), cur \o <<Head(s)>>)
SplitCommas(s) == SplitFrom(s, <<>>)

\* int(s) of a str: surrounding whitespace is ignored; an optional sign, then
\* digits, where single underscores may separate digits.  ok = FALSE models
\* the ValueError.
RECURSIVE DigitsValue(_, _)
DigitsValue(s, acc) ==
    IF s = <<>> THEN acc
    ELSE IF Head(s) = "_" THEN DigitsValue(Tail(s), acc)
    ELSE DigitsValue(Tail(s), 10 * acc + DigitVal(Head(s)))
IsDigitString(s) ==
    /\ s # <<>>
    /\ IsDigit(s[1]) /\ IsDigit(s[Len(s)])
    /\ \A i \in 1..Len(s) : IsDigit(s[i]) \/ s[i] = "_"
    /\ \A i \in 1..(Len(s) - 1) : ~(s[i] = "_" /\ s[i + 1] = "_")
ParseInt(s) ==
    LET t == Strip(s)
        signed == t # <<>> /\ Head(t) \in {"+", "-"}
        body == IF signed THEN Tail(t) ELSE t
    IN  IF ~IsDigitString(body) THEN [ok |-> FALSE, val |-> 0]
        ELSE [ok |-> TRUE,
              val |-> IF signed /\ Head(t) = "-" THEN 0 - DigitsValue(body, 0)
                      ELSE DigitsValue(body, 0)]

RowsPrefix == <<"r", "o", "w", "s", "=">>
ColsPrefix == <<"c", "o", "l", "s", "=">>

\* ------------------------------------------------------ to_string
KeyLess(a, b) == a[1] < b[1] \/ (a[1] = b[1] /\ a[2] < b[2])
\* sorted(self.matrix_data.keys())
RECURSIVE SortedKeys(_)
SortedKeys(S) ==
    IF S = {} THEN <<>>
    ELSE LET least == CHOOSE k \in S : \A other \in S : other = k \/ KeyLess(k, other)
         IN  <<least>> \o SortedKeys(S \ {least})

\* f"({r}, {c}, {value})\n"
FormatEntry(r, c, value) ==
    <<"(">> \o IntStr(r) \o <<",", " ">> \o IntStr(c) \o <<",", " ">> \o IntStr(value)
           \o <<")", "\n">>

RECURSIVE FormatEntries(_, _)
FormatEntries(d, keys) ==
    IF keys = <<>> THEN <<>>
    ELSE LET k == Head(keys)
         IN  FormatEntry(k[1], k[2], d[k]) \o FormatEntries(d, Tail(keys))

\* f"rows={self.rows}\ncols={self.cols}\n"
FormatHeader(numRows, numCols) ==
    RowsPrefix \o IntStr(numRows) \o <<"\n">> \o ColsPrefix \o IntStr(numCols) \o <<"\n">>

to_string(st, m) ==
    FormatHeader(m.rows, m.cols)
        \o FormatEntries(st[m.matrix_data], SortedKeys(DOMAIN st[m.matrix_data]))

\* ------------------------------------------- construction from a file
\* A file: whether it exists, and its text.
NoFile == [exists |-> FALSE, text |-> <<>>]
File(text) == [exists |-> TRUE, text |-> text]

\* ParseHeader without the check that both dimensions are positive.
ParseHeader_NoPositiveCheck(lines) ==
    IF Len(lines) < 2 THEN [ok |-> FALSE, rows |-> 0, cols |-> 0]
    ELSE LET rows_str == Strip(lines[1])
             cols_str == Strip(lines[2])
             rows == ParseInt(DropPrefix(rows_str, Len(RowsPrefix)))
             cols == ParseInt(DropPrefix(cols_str, Len(ColsPrefix)))
         IN  IF ~StartsWith(rows_str, RowsPrefix) \/ ~StartsWith(cols_str, ColsPrefix)
             THEN [ok |-> FALSE, rows |-> 0, cols |-> 0]
             ELSE IF ~rows.ok \/ ~cols.ok THEN [ok |-> FALSE, rows |-> 0, cols |-> 0]
             ELSE [ok |-> TRUE, rows |-> rows.val, cols |-> cols.val]

\* Lines 21-35: the rows/cols header.  ok = FALSE models the ValueError
\* "Missing or invalid rows/cols definitions" (an IndexError or ValueError
\* inside the try block).
ParseHeader(lines) ==
    IF Len(lines) < 2 THEN [ok |-> FALSE, rows |-> 0, cols |-> 0]
    ELSE LET rows_str == Strip(lines[1])
             cols_str == Strip(lines[2])
             rows == ParseInt(DropPrefix(rows_str, Len(RowsPrefix)))
             cols == ParseInt(DropPrefix(cols_str, Len(ColsPrefix)))
         IN  IF ~StartsWith(rows_str, RowsPrefix) \/ ~StartsWith(cols_str, ColsPrefix)
             THEN [ok |-> FALSE, rows |-> 0, cols |-> 0]
             ELSE IF ~rows.ok \/ ~cols.ok THEN [ok |-> FALSE, rows |-> 0, cols |-> 0]
             ELSE IF rows.val <= 0 \/ cols.val <= 0
             THEN [ok |-> FALSE, rows |-> 0, cols |-> 0]
             ELSE [ok |-> TRUE, rows |-> rows.val, cols |-> cols.val]

\* Lines 38-63: one pass of the loop over the entry lines, on the dict d of
\* the matrix being built.
ParseEntryLine(d, numRows, numCols, rawLine) ==
    LET line == Strip(rawLine)
        parts == SplitCommas(Inner(line))
        row == ParseInt(Strip(parts[1]))
        col == ParseInt(Strip(parts[2]))
        value == ParseInt(Strip(parts[3]))
    IN  IF line = <<>> THEN [err |-> None, d |-> d]
        ELSE IF ~(StartsWith(line, <<"(">>) /\ EndsWith(line, <<")">>))
        THEN [err |-> MalformedEntry, d |-> d]
        ELSE IF Len(parts) # 3 THEN [err |-> MalformedEntry, d |-> d]
        ELSE IF ~row.ok \/ ~col.ok \/ ~value.ok THEN [err |-> MalformedEntry, d |-> d]
        ELSE IF ~(0 <= row.val /\ row.val < numRows /\ 0 <= col.val /\ col.val < numCols)
        THEN [err |-> EntryOutOfBounds, d |-> d]
        ELSE IF value.val # 0
        THEN [err |-> None, d |-> DictSet(d, <<row.val, col.val>>, value.val)]
        ELSE [err |-> None, d |-> d]

\* for i in range(2, len(lines)): ...
RECURSIVE ParseEntries(_, _, _, _, _)
ParseEntries(ld, numRows, numCols, lines, i) ==
    IF i > Len(lines) \/ ld.err # None THEN ld
    ELSE ParseEntries(ParseEntryLine(ld.d, numRows, numCols, lines[i]),
                      numRows, numCols, lines, i + 1)

\* SparseMatrix(matrixFilePath=...): __init__ with a file path, calling
\* _load_from_file.  An exception leaves the constructor: no object is
\* returned and the object under construction is dropped.
LoadMatrix(st, file) ==
    LET a == AllocMatrix(st, 0, 0)
        lines == ReadLines(file.text)
        header == ParseHeader(lines)
        parsed == ParseEntries([err |-> None, d |-> a.st[a.m.matrix_data]],
                               header.rows, header.cols, lines, 3)
    IN  IF ~file.exists THEN [err |-> SourceNotFound, st |-> st, ret |-> NoMatrix]
        ELSE IF ~header.ok THEN [err |-> MalformedHeader, st |-> st, ret |-> NoMatrix]
        ELSE IF parsed.err # None THEN [err |-> parsed.err, st |-> st, ret |-> NoMatrix]
        ELSE [err |-> None,
              st |-> StoreSet(a.st, a.m.matrix_data, parsed.d),
              ret |-> [a.m EXCEPT !.rows = header.rows, !.cols = header.cols]]

\* ------------------------------------------------------------- state
VARIABLES
    heap,      \* the objects the caller holds: operands "A", "B", last result "R"
    dicts,     \* the store of the dict objects the matrices refer to
    call,      \* the most recent call: what was called, on which objects, its outcome
    ncalls,    \* calls made so far after construction
    src,       \* the file a matrix is loaded from or serialized to
    srcLines   \* how the lines of a drawn file were built (see SpecText)

vars == <<heap, dicts, call, ncalls, src, srcLines>>

Names == {"A", "B", "R"}
OperandNames == {"A", "B"}

\* The shapes of the matrices constructed with explicit dimensions.
DimRange == 1..MaxCells
Shapes == {s \in DimRange \X DimRange : s[1] * s[2] <= MaxCells}
Cells(rows, cols) == (0..(rows - 1)) \X (0..(cols - 1))

\* r, c, v: the arguments of a getElement (r, c) or setElement.  returned: the call handed an
\* object or a value back (it did not raise).  ret: what getElement returned.
NoCall == [op |-> "none", self |-> "-", other |-> "-", r |-> 0, c |-> 0, v |-> 0,
           err |-> None, returned |-> FALSE, ret |-> NoValue]

\* srcLines of a file that was not drawn.
NoLines == [header |-> [valid |-> FALSE, rows |-> 0, cols |-> 0, lines |-> <<>>],
            entries |-> <<>>]

\* The dict of the object the caller holds under name.
Data(name) == dicts[heap[name].matrix_data]

\* The caller letting go of the object it holds under name: the dict goes
\* with it unless another object the caller holds refers to it too.
Drop(st, name) ==
    IF heap[name] = NoMatrix
       \/ \E n \in Names \ {name} : heap[n].matrix_data = heap[name].matrix_data
    THEN st ELSE Release(st, heap[name].matrix_data)

\* -------------------------------------------- the call-sequence machine
Init ==
    /\ heap = [n \in Names |-> NoMatrix]
    /\ dicts = EmptyStore
    /\ call = NoCall
    /\ ncalls = 0
    /\ src = NoFile
    /\ srcLines = NoLines

Constructed == heap["A"] # NoMatrix /\ heap["B"] # NoMatrix
\* The caller constructs A, then B.
MayConstruct(name) == heap[name] = NoMatrix /\ (name = "B" => heap["A"] # NoMatrix)

\* name = SparseMatrix(numRows=numRows, numCols=numCols)
Construct(name, numRows, numCols) ==
    /\ MayConstruct(name)
    /\ LET out == NewMatrix(dicts, numRows, numCols)
       IN  /\ heap' = [heap EXCEPT ![name] = out.ret]
           /\ dicts' = out.st
           /\ call' = [NoCall EXCEPT !.op = "construct", !.self = name,
                                     !.err = out.err, !.returned = (out.ret # NoMatrix)]
    /\ UNCHANGED <<ncalls, src, srcLines>>

\* name = SparseMatrix(matrixFilePath=file)
ConstructFromFile(name, file) ==
    /\ MayConstruct(name)
    /\ LET out == LoadMatrix(dicts, file)
       IN  /\ heap' = [heap EXCEPT ![name] = out.ret]
           /\ dicts' = out.st
           /\ call' = [NoCall EXCEPT !.op = "load", !.self = name,
                                     !.err = out.err, !.returned = (out.ret # NoMatrix)]
    /\ UNCHANGED <<ncalls, src, srcLines>>

\* heap[name].getElement(r, c)
GetElement(name, r, c) ==
    /\ heap[name] # NoMatrix /\ ncalls < MaxCalls
    /\ LET out == getElement(dicts, heap[name], r, c)
       IN  call' = [NoCall EXCEPT !.op = "getElement", !.self = name, !.r = r, !.c = c,
                                 !.err = out.err, !.returned = (out.err = None),
                                 !.ret = out.ret]
    /\ ncalls' = ncalls + 1
    /\ UNCHANGED <<heap, dicts, src, srcLines>>

\* heap[name].setElement(r, c, v)
SetElement(name, r, c, v) ==
    /\ heap[name] # NoMatrix /\ ncalls < MaxCalls
    /\ LET out == setElement(dicts, heap[name], r, c, v)
       IN  /\ dicts' = out.st
           /\ call' = [NoCall EXCEPT !.op = "setElement", !.self = name,
                                     !.r = r, !.c = c, !.v = v, !.err = out.err]
    /\ ncalls' = ncalls + 1
    /\ UNCHANGED <<heap, src, srcLines>>

\* R = heap[self].op(heap[other]), the caller having let go of its previous
\* result; out is the outcome of the call on the store Drop(dicts, "R").
Binary(opname, self, other, out) ==
    /\ heap' = [heap EXCEPT !["R"] = out.ret]
    /\ dicts' = out.st
    /\ call' = [NoCall EXCEPT !.op = opname, !.self = self, !.other = other,
                              !.err = out.err, !.returned = (out.ret # NoMatrix)]
    /\ UNCHANGED <<src, srcLines>>

Add(self, other) ==
    /\ Constructed /\ ncalls < MaxCalls
    /\ \E so \in Orders(DOMAIN Data(self)), oo \in Orders(DOMAIN Data(other)) :
          Binary("add", self, other,
                 add(Drop(dicts, "R"), heap[self], heap[other], so, oo))
    /\ ncalls' = ncalls + 1

Subtract(self, other) ==
    /\ Constructed /\ ncalls < MaxCalls
    /\ \E so \in Orders(DOMAIN Data(self)), oo \in Orders(DOMAIN Data(other)) :
          Binary("subtract", self, other,
                 subtract(Drop(dicts, "R"), heap[self], heap[other], so, oo))
    /\ ncalls' = ncalls + 1

Multiply(self, other) ==
    /\ Constructed /\ ncalls < MaxCalls
    /\ \E so \in Orders(DOMAIN Data(self)), oo \in Orders(DOMAIN Data(other)) :
          Binary("multiply", self, other,
                 multiply(Drop(dicts, "R"), heap[self], heap[other], so, oo))
    /\ ncalls' = ncalls + 1

\* Coordinates the caller passes for matrix m: every cell, and the nearest
\* coordinates out of range on each side.
CoordArgs(m) ==
    Cells(m.rows, m.cols) \cup {<<0 - 1, 0>>, <<m.rows, 0>>, <<0, 0 - 1>>, <<0, m.cols>>}
DimArgs == 0..MaxCells

\* The files the call-sequence specification constructs operands from: one
\* with a zero-valued entry, one with an entry out of bounds, one with a
\* non-positive header, and a missing file.
SampleFiles ==
    { File(FormatHeader(1, 2) \o FormatEntry(0, 1, 0 - 1) \o FormatEntry(0, 0, 0)),
      File(FormatHeader(2, 1) \o FormatEntry(2, 0, 1)),
      File(FormatHeader(0, 1)),
      NoFile }

Next ==
    \/ \E name \in OperandNames, nr, nc \in DimArgs :
          nr * nc <= MaxCells /\ Construct(name, nr, nc)
    \/ \E name \in OperandNames, file \in SampleFiles : ConstructFromFile(name, file)
    \/ \E name \in Names : \E k \in CoordArgs(heap[name]) : GetElement(name, k[1], k[2])
    \/ \E name \in Names : \E k \in CoordArgs(heap[name]), v \in Values :
          SetElement(name, k[1], k[2], v)
    \/ \E self, other \in OperandNames : Add(self, other)
    \/ \E self, other \in OperandNames : Subtract(self, other)
    \/ \E self, other \in OperandNames : Multiply(self, other)

Spec == Init /\ [][Next]_vars

\* ------------------------------------- arithmetic on drawn operands
\* The operands: every matrix of every shape with at most MaxEntries stored
\* entries, each a non-zero value (what construction and setElement build).
DictsOver(cells, values) ==
    UNION {[K -> values] : K \in {S \in SUBSET cells : Cardinality(S) <= MaxEntries}}

InitArith ==
    /\ \E sa, sb \in Shapes :
         \E da \in DictsOver(Cells(sa[1], sa[2]), NonZeroValues),
            db \in DictsOver(Cells(sb[1], sb[2]), NonZeroValues) :
            /\ dicts = <<da, db>>
            /\ heap = [n \in Names |->
                         IF n = "A" THEN [rows |-> sa[1], cols |-> sa[2], matrix_data |-> 1]
                         ELSE IF n = "B"
                         THEN [rows |-> sb[1], cols |-> sb[2], matrix_data |-> 2]
                         ELSE NoMatrix]
    /\ call = NoCall
    /\ ncalls = MaxCalls - 1
    /\ src = NoFile
    /\ srcLines = NoLines

NextArith ==
    \/ Add("A", "B")
    \/ Subtract("A", "B")
    \/ Multiply("A", "B")

SpecArith == InitArith /\ [][NextArith]_vars

\* --------------------------------------------- files and serialization
\* A drawn file is built from a header and entry lines, each recorded with
\* what it is by construction (srcLines), so that what loading must do is
\* known without parsing the text.

\* An entry line (without its "\n") as to_string writes it, and two other
\* spellings of the same entry: no blanks, and blanks around the fields with
\* an explicit sign on a positive value.
Canonical(r, c, v) == SubSeq(FormatEntry(r, c, v), 1, Len(FormatEntry(r, c, v)) - 1)
Compact(r, c, v) ==
    <<"(">> \o IntStr(r) \o <<",">> \o IntStr(c) \o <<",">> \o IntStr(v) \o <<")">>
Loose(r, c, v) ==
    <<" ", "(", " ">> \o IntStr(r) \o <<" ", ",">> \o IntStr(c) \o <<",", "\t">>
        \o (IF v > 0 THEN <<"+">> ELSE <<>>) \o IntStr(v) \o <<" ", ")", " ">>

EntryLine(text, r, c, v) == [kind |-> "entry", text |-> text, r |-> r, c |-> c, v |-> v]
OtherLine(kind, text) == [kind |-> kind, text |-> text, r |-> 0, c |-> 0, v |-> 0]

FileCoords == {<<0, 0>>, <<1, 0>>, <<0, 0 - 1>>}
FileValues == {0 - 1, 0, 5}
EntryLines ==
    {EntryLine(Canonical(k[1], k[2], v), k[1], k[2], v) : k \in FileCoords, v \in FileValues}
    \cup {EntryLine(Compact(0, 0, 0 - 1), 0, 0, 0 - 1), EntryLine(Loose(0, 0, 5), 0, 0, 5)}
BlankLines == {OtherLine("blank", <<>>), OtherLine("blank", <<" ", "\t">>)}
MalformedLines ==
    { OtherLine("malformed", <<"(", "0", ",", " ", "0", ")">>),
      OtherLine("malformed", <<"(", "0", ",", "0", ",", "5", ",", "5", ")">>),
      OtherLine("malformed", <<"0", ",", " ", "0", ",", " ", "5">>),
      OtherLine("malformed", <<"(", "0", ",", " ", "0", ",", " ", "5">>),
      OtherLine("malformed", <<"(", "9", ",", " ", "9", ",", " ", "x", ")">>),
      OtherLine("malformed", <<"(", "0", ",", " ", ",", " ", "5", ")">>),
      OtherLine("malformed", <<"(", "0", ",", " ", "0", ",", " ", "1", ".", "5", ")">>) }
LineMenu == EntryLines \cup BlankLines \cup MalformedLines

\* Headers: the lines before the entries.  valid: two lines rows=<int>,
\* cols=<int> with both integers positive.
Header(valid, numRows, numCols, lines) ==
    [valid |-> valid, rows |-> numRows, cols |-> numCols, lines |-> lines]
HeaderLine(prefix, digits) == prefix \o digits
ValidHeaders ==
    { Header(TRUE, 1, 2, <<HeaderLine(RowsPrefix, <<"1">>), HeaderLine(ColsPrefix, <<"2">>)>>),
      Header(TRUE, 2, 1, << <<" ">> \o HeaderLine(RowsPrefix, <<"+", "2">>),
                            HeaderLine(ColsPrefix, <<" ", "0", "1", " ">>)>>),
      Header(TRUE, 12, 1, <<HeaderLine(RowsPrefix, <<"1", "2">>),
                            HeaderLine(ColsPrefix, <<"1">>)>>) }
InvalidHeaders ==
    { Header(FALSE, 0, 0, <<>>),
      Header(FALSE, 0, 0, <<HeaderLine(RowsPrefix, <<"2">>)>>),
      Header(FALSE, 0, 0, <<HeaderLine(<<"r", "o", "w", "=">>, <<"2">>),
                            HeaderLine(ColsPrefix, <<"2">>)>>),
      Header(FALSE, 0, 0, <<HeaderLine(ColsPrefix, <<"2">>),
                            HeaderLine(RowsPrefix, <<"2">>)>>),
      Header(FALSE, 0, 0, <<HeaderLine(RowsPrefix, <<"x">>), HeaderLine(ColsPrefix, <<"2">>)>>),
      Header(FALSE, 0, 0, <<HeaderLine(RowsPrefix, <<"2">>), HeaderLine(ColsPrefix, <<>>)>>),
      Header(FALSE, 0, 0, <<HeaderLine(RowsPrefix, <<"0">>), HeaderLine(ColsPrefix, <<"2">>)>>),
      Header(FALSE, 0, 0, <<HeaderLine(RowsPrefix, <<"2">>),
                            HeaderLine(ColsPrefix, <<"-", "1">>)>>),
      Header(FALSE, 0, 0, <<<<>>, HeaderLine(RowsPrefix, <<"2">>),
                            HeaderLine(ColsPrefix, <<"2">>)>>) }

\* The text of a file: each line followed by "\n".
RECURSIVE JoinLines(_)
JoinLines(lines) ==
    IF lines = <<>> THEN <<>> ELSE Head(lines) \o <<"\n">> \o JoinLines(Tail(lines))
LineTexts(entries) == [i \in 1..Len(entries) |-> entries[i].text]
FileText(header, entries) == JoinLines(header.lines \o LineTexts(entries))

LineSeqs(n) == UNION {[1..k -> LineMenu] : k \in 0..n}

\* The matrices that are serialized: shapes and values with one and several
\* digits, at most MaxEntries stored entries.
TextShapes == {<<1, 1>>, <<2, 2>>, <<1, 11>>}
TextValues == {0 - 12, 7, 100}

InitText ==
    /\ call = NoCall
    /\ ncalls = 0
    /\ \/ \* a drawn file, nothing constructed yet
          /\ heap = [n \in Names |-> NoMatrix]
          /\ dicts = EmptyStore
          /\ \/ \E h \in ValidHeaders, es \in LineSeqs(MaxLines) :
                   /\ src = File(FileText(h, es))
                   /\ srcLines = [header |-> h, entries |-> es]
             \/ \E h \in InvalidHeaders, es \in LineSeqs(1) :
                   /\ src = File(FileText(h, es))
                   /\ srcLines = [header |-> h, entries |-> es]
       \/ \* a matrix built by construction and setElement calls, no file yet
          /\ \E s \in TextShapes : \E d \in DictsOver(Cells(s[1], s[2]), TextValues) :
                /\ dicts = <<d>>
                /\ heap = [n \in Names |->
                             IF n = "A" THEN [rows |-> s[1], cols |-> s[2], matrix_data |-> 1]
                             ELSE NoMatrix]
          /\ src = NoFile
          /\ srcLines = NoLines

\* The file is written with heap["A"].to_string().
Serialize ==
    /\ heap["A"] # NoMatrix /\ call.op = "none"
    /\ src' = File(to_string(dicts, heap["A"]))
    /\ call' = [NoCall EXCEPT !.op = "to_string", !.self = "A", !.returned = TRUE]
    /\ UNCHANGED <<heap, dicts, ncalls, srcLines>>

\* R = SparseMatrix(matrixFilePath=src)
Load ==
    /\ call.op \in {"none", "to_string"}
    /\ LET out == LoadMatrix(dicts, src)
       IN  /\ heap' = [heap EXCEPT !["R"] = out.ret]
           /\ dicts' = out.st
           /\ call' = [NoCall EXCEPT !.op = "load", !.self = "R", !.other = call.op,
                                     !.err = out.err, !.returned = (out.ret # NoMatrix)]
    /\ UNCHANGED <<ncalls, src, srcLines>>

NextText ==
    \/ Serialize
    \/ Load

SpecText == InitText /\ [][NextText]_vars

\* ============================================================ properties
BinaryOps == {"add", "subtract", "multiply"}
Held == {n \in Names : heap[n] # NoMatrix}
\* The logical value of a matrix with dict d at a coordinate: 0 when absent.
ValueAt(d, i, j) == IF <<i, j>> \in DOMAIN d THEN d[<<i, j>>] ELSE 0
\* The coordinate domain [0, rows) x [0, cols) of matrix m.
InRange(m, i, j) == i \in 0..(m.rows - 1) /\ j \in 0..(m.cols - 1)

\* C1: in every reachable state no key of the matrix_data of any matrix --
\* the operands, however constructed and set, and every result of add,
\* subtract and multiply -- maps to 0.
C1_NoZeroStored == \A n \in Held : \A k \in DOMAIN Data(n) : Data(n)[k] # 0

\* An add or subtract whose operand has entries and whose result has none:
\* every sum cancelled to 0 and was removed.
C1_Witness ==
    /\ call.op \in {"add", "subtract"} /\ call.err = None
    /\ DOMAIN Data("A") # {} /\ DOMAIN Data("R") = {}

\* C2: a matrix loaded from a file holds, at every coordinate that appears on
\* more than one entry line, the value of the last entry line for it.
LastLineFor(entries, r, c) ==
    CHOOSE i \in 1..Len(entries) :
        /\ entries[i].kind = "entry" /\ entries[i].r = r /\ entries[i].c = c
        /\ \A j \in (i + 1)..Len(entries) :
              ~(entries[j].kind = "entry" /\ entries[j].r = r /\ entries[j].c = c)
C2_LastWriteWins ==
    (call.op = "load" /\ call.other = "none" /\ call.err = None) =>
        \A i, j \in 1..Len(srcLines.entries) :
            LET e == srcLines.entries
            IN  (i < j /\ e[i].kind = "entry" /\ e[j].kind = "entry"
                 /\ e[i].r = e[j].r /\ e[i].c = e[j].c)
                => ValueAt(Data("R"), e[i].r, e[i].c) = e[LastLineFor(e, e[i].r, e[i].c)].v

\* C3: loading the text that to_string wrote for a matrix succeeds and gives
\* a matrix with the same rows, the same cols and the same matrix_data.
C3_RoundTrip ==
    (call.op = "load" /\ call.other = "to_string") =>
        /\ call.err = None /\ call.returned
        /\ heap["R"].rows = heap["A"].rows /\ heap["R"].cols = heap["A"].cols
        /\ Data("R") = Data("A")

\* A round trip of a matrix with several entries, a negative value of
\* several digits and a column index of two digits.
C3_Witness ==
    /\ call.op = "load" /\ call.other = "to_string" /\ call.err = None
    /\ Cardinality(DOMAIN Data("A")) >= 2
    /\ \E k \in DOMAIN Data("A") : Data("A")[k] < 0 - 9 /\ k[2] >= 10

\* sum over k in 0..n-1 of a[i,k] * b[k,j]
RECURSIVE DotSum(_, _, _, _, _)
DotSum(a, b, i, j, n) ==
    IF n = 0 THEN 0
    ELSE DotSum(a, b, i, j, n - 1) + ValueAt(a, i, n - 1) * ValueAt(b, n - 1, j)

\* C4: a multiply that returns gives a matrix of A.rows x B.cols whose value
\* at (i, j) is the sum over k of A[i,k] * B[k,j], and whose matrix_data
\* holds exactly the coordinates where that sum is not 0.
C4_MultiplyIsProduct ==
    (call.op = "multiply" /\ call.err = None) =>
        LET a == heap[call.self]
            b == heap[call.other]
            r == heap["R"]
        IN  /\ r.rows = a.rows /\ r.cols = b.cols
            /\ \A i \in 0..(a.rows - 1), j \in 0..(b.cols - 1) :
                  ValueAt(Data("R"), i, j) = DotSum(Data(call.self), Data(call.other), i, j, a.cols)
            /\ DOMAIN Data("R") =
                  {k \in Cells(a.rows, b.cols) :
                     DotSum(Data(call.self), Data(call.other), k[1], k[2], a.cols) # 0}

\* A product with a cell where two non-zero partial products cancel to 0.
C4_Witness ==
    /\ call.op = "multiply" /\ call.err = None
    /\ \E k \in Cells(heap["A"].rows, heap["B"].cols) :
          /\ <<k[1], k[2]>> \notin DOMAIN Data("R")
          /\ \E x, y \in 0..(heap["A"].cols - 1) :
                /\ x # y
                /\ ValueAt(Data("A"), k[1], x) * ValueAt(Data("B"), x, k[2]) # 0
                /\ ValueAt(Data("A"), k[1], y) * ValueAt(Data("B"), y, k[2]) # 0

\* C5: an add that returns gives a matrix of the operands' dimensions whose
\* value at every coordinate is A's plus B's, whose matrix_data holds exactly
\* the coordinates where that sum is not 0; and B.add(A) gives the same
\* dimensions and the same matrix_data, whatever the iteration orders.
C5_AddIsSum ==
    (call.op = "add" /\ call.err = None) =>
        LET a == heap[call.self]
            b == heap[call.other]
            r == heap["R"]
        IN  /\ r.rows = a.rows /\ r.cols = a.cols /\ r.rows = b.rows /\ r.cols = b.cols
            /\ \A k \in Cells(a.rows, a.cols) :
                  ValueAt(Data("R"), k[1], k[2])
                      = ValueAt(Data(call.self), k[1], k[2]) + ValueAt(Data(call.other), k[1], k[2])
            /\ DOMAIN Data("R") =
                  {k \in Cells(a.rows, a.cols) :
                     ValueAt(Data(call.self), k[1], k[2]) + ValueAt(Data(call.other), k[1], k[2]) # 0}
            /\ \A so \in Orders(DOMAIN Data(call.other)), oo \in Orders(DOMAIN Data(call.self)) :
                  LET swapped == add(dicts, b, a, so, oo)
                  IN  /\ swapped.err = None
                      /\ swapped.ret.rows = r.rows /\ swapped.ret.cols = r.cols
                      /\ swapped.st[swapped.ret.matrix_data] = Data("R")

\* A sum where one coordinate present in both operands cancels to 0 and
\* another coordinate stays.
C5_Witness ==
    /\ call.op = "add" /\ call.err = None
    /\ \E k \in (DOMAIN Data("A")) \cap (DOMAIN Data("B")) : k \notin DOMAIN Data("R")
    /\ DOMAIN Data("R") # {}

\* The operands are what they were before the step: the same objects, with
\* the same rows, cols and matrix_data contents.
OperandsUnchanged ==
    \A n \in OperandNames :
        /\ heap'[n] = heap[n]
        /\ heap[n] # NoMatrix => dicts'[heap[n].matrix_data] = dicts[heap[n].matrix_data]

\* C6: no add, subtract or multiply call, returning or raising, with distinct
\* operands or with the same object as both, changes an operand; and no
\* setElement on the returned result changes an operand.
C6_OperandsNotMutated ==
    [][((call'.op \in BinaryOps /\ ncalls' = ncalls + 1)
        \/ (call'.op = "setElement" /\ call'.self = "R" /\ ncalls' = ncalls + 1))
       => OperandsUnchanged]_vars

\* A setElement on a returned result that stored a value there.
C6_Witness ==
    /\ call.op = "setElement" /\ call.self = "R" /\ call.err = None
    /\ call.v # 0 /\ Data("R") # Data("A")

\* What loading a drawn file must do, from how its lines were built: the
\* header first, then the first entry line, in line order, that is malformed
\* or whose coordinate is outside the header's dimensions.
LineViolation(h, line) ==
    IF line.kind = "malformed" THEN MalformedEntry
    ELSE IF line.kind = "entry" /\ ~(line.r \in 0..(h.rows - 1) /\ line.c \in 0..(h.cols - 1))
    THEN EntryOutOfBounds
    ELSE None
ExpectedError(sl) ==
    IF ~sl.header.valid THEN MalformedHeader
    ELSE IF \A i \in 1..Len(sl.entries) : LineViolation(sl.header, sl.entries[i]) = None
    THEN None
    ELSE LET first == CHOOSE i \in 1..Len(sl.entries) :
                         /\ LineViolation(sl.header, sl.entries[i]) # None
                         /\ \A j \in 1..(i - 1) : LineViolation(sl.header, sl.entries[j]) = None
         IN  LineViolation(sl.header, sl.entries[first])

\* C7: loading a file fails with the kind of the first violation in line
\* order -- MalformedHeader for a bad header whatever follows, else
\* MalformedEntry or EntryOutOfBounds for the first offending entry line,
\* blank lines never offending -- and a load that fails returns no matrix.
C7_FirstViolation ==
    (call.op = "load" /\ call.other = "none" /\ src.exists) =>
        /\ call.err = ExpectedError(srcLines)
        /\ call.err # None => (~call.returned /\ heap["R"] = NoMatrix /\ dicts = EmptyStore)
        /\ call.err = None => (call.returned /\ heap["R"] # NoMatrix)

\* A file whose first entry line is out of bounds and whose second is
\* malformed: the load fails with EntryOutOfBounds.
C7_Witness ==
    /\ call.op = "load" /\ call.err = EntryOutOfBounds
    /\ Len(srcLines.entries) = 2
    /\ srcLines.entries[1].kind = "entry" /\ srcLines.entries[2].kind = "malformed"

\* C8: a getElement(r, c) right after a setElement(r, c, v) on the same
\* matrix, both in bounds, returns v when v is not 0 and 0 when v is 0,
\* whatever was stored there before; and a getElement right after the
\* explicit construction of a matrix returns 0 at every in-bounds coordinate.
C8_SetThenGet ==
    [][(call'.op = "getElement" /\ ncalls' = ncalls + 1 /\ call'.self = call.self
        /\ InRange(heap[call.self], call'.r, call'.c))
       => /\ (call.op = "setElement" /\ call.err = None
                 /\ call'.r = call.r /\ call'.c = call.c)
             => /\ call'.err = None
                /\ call'.ret = (IF call.v # 0 THEN call.v ELSE 0)
          /\ (call.op = "construct" /\ call.err = None)
             => (call'.err = None /\ call'.ret = 0)]_vars

\* A getElement that returned 1 right where a setElement had stored it.
C8_Witness == call.op = "getElement" /\ call.err = None /\ call.ret = 1

\* C9: add and subtract raise DimensionMismatch exactly when the operands'
\* rows or cols differ, multiply exactly when self.cols differs from
\* other.rows; a call that raises returns no matrix, and otherwise the call
\* returns a matrix.
C9_DimensionMismatch ==
    (call.op \in BinaryOps) =>
        LET a == heap[call.self]
            b == heap[call.other]
            mismatch == IF call.op = "multiply" THEN a.cols # b.rows
                        ELSE a.rows # b.rows \/ a.cols # b.cols
        IN  /\ (call.err = DimensionMismatch) <=> mismatch
            /\ call.err \in {None, DimensionMismatch}
            /\ call.err # None => (~call.returned /\ heap["R"] = NoMatrix)
            /\ call.err = None => (call.returned /\ heap["R"] # NoMatrix)

\* A multiply that raised on two operands of equal shape.
C9_Witness ==
    /\ call.op = "multiply" /\ call.err = DimensionMismatch
    /\ heap["A"].rows = heap["B"].rows /\ heap["A"].cols = heap["B"].cols

KeysInRange ==
    \A n \in Held :
        /\ heap[n].rows > 0 /\ heap[n].cols > 0
        /\ \A k \in DOMAIN Data(n) : InRange(heap[n], k[1], k[2])
\* An object keeps its rows and cols (R names a new object after a binary
\* operation).
DimsFixed ==
    \A n \in Held :
        (n = "R" /\ call'.op \in BinaryOps)
        \/ (heap'[n].rows = heap[n].rows /\ heap'[n].cols = heap[n].cols)
OutOfRangeRaises ==
    (call'.op \in {"getElement", "setElement"} /\ ncalls' = ncalls + 1
     /\ ~InRange(heap[call'.self], call'.r, call'.c))
    => (call'.err = IndexOutOfBounds /\ heap' = heap /\ dicts' = dicts)

\* C10: every key of every matrix, operand or result, is inside
\* [0, rows) x [0, cols); rows and cols are positive and never change; and a
\* getElement or setElement with a coordinate out of range raises
\* IndexOutOfBounds and leaves every matrix_data unchanged.
C10_Bounds == []KeysInRange /\ [][DimsFixed /\ OutOfRangeRaises]_vars

\* A setElement that raised IndexOutOfBounds on a matrix that has entries.
C10_Witness ==
    /\ call.op = "setElement" /\ call.err = IndexOutOfBounds
    /\ DOMAIN Data(call.self) # {}

====
